---- MODULE Spec2Model ----
\* State machine of the Chat component (src/Chat.jsx): the session state held
\* in React hooks, the four handlers (checkBackendHealth, handleCsvFileChange,
\* sendMessage, uploadCSV) split at their awaits, and the CSV -> OHLC
\* conversion done inside uploadCSV.
\*
\* Text is a sequence of one-character strings.  A file is a handle whose
\* content, FileLines(f), is the list of its '\n'-separated lines; everything
\* below the line level (trim, split(','), parseFloat) is computed on
\* characters.  Numerals in the modelled files are integers.
EXTENDS Integers, Sequences, FiniteSets, TLC

\* ---------------------------------------------------------------- bounds
MaxTasks == 2
MaxMessages == 4
MaxRows == 51

\* ------------------------------------------------------- program constants
minLines == 50

ChatErrorText == <<"Error connecting to backend. Make sure the server is running on port 8000.">>

CsvErrorText == <<"Failed to upload and analyze CSV">>

DefaultQuestion == <<"Analyze this CSV data">>

\* ------------------------------------------------------------- JS values
Null == [t |-> "null"]

Undefined == [t |-> "undefined", v |-> <<>>]

Str(s) == [t |-> "str", v |-> s]

NaN == [t |-> "nan", v |-> 0]

Num(n) == [t |-> "num", v |-> n]

PosInfinity == [t |-> "inf", v |-> 1]

NegInfinity == [t |-> "inf", v |-> -1]

\* JS truthiness of a string-or-undefined value and of a char sequence.
Truthy(x) == x.t = "str" /\ x.v # <<>>

\* a || b
OrElse(a, b) == IF Truthy(a) THEN a ELSE b

\* ---------------------------------------------------------------- strings
IsWhitespace(c) == c \in {" ", "\t", "\r"}

RECURSIVE TrimStart(_)
TrimStart(s) ==
  IF s = <<>> THEN s
  ELSE IF IsWhitespace(Head(s)) THEN TrimStart(Tail(s)) ELSE s

RECURSIVE TrimEnd(_)
TrimEnd(s) ==
  IF s = <<>> THEN s
  ELSE IF IsWhitespace(s[Len(s)]) THEN TrimEnd(SubSeq(s, 1, Len(s) - 1)) ELSE s

\* String.prototype.trim
Trim(s) == TrimEnd(TrimStart(s))

\* String.prototype.split(sep) for a one-character separator: "" gives [""].
RECURSIVE Split(_, _)
Split(s, sep) ==
  IF \A i \in 1..Len(s) : s[i] # sep THEN <<s>>
  ELSE LET i == CHOOSE k \in 1..Len(s) :
                  s[k] = sep /\ \A j \in 1..(k - 1) : s[j] # sep
       IN <<SubSeq(s, 1, i - 1)>> \o Split(SubSeq(s, i + 1, Len(s)), sep)

\* lines.filter(line => line.trim()), evaluated by halves.
RECURSIVE NonBlank(_)
NonBlank(xs) ==
  IF xs = <<>> THEN <<>>
  ELSE IF Len(xs) = 1 THEN (IF Trim(xs[1]) # <<>> THEN xs ELSE <<>>)
       ELSE LET h == Len(xs) \div 2
            IN NonBlank(SubSeq(xs, 1, h)) \o NonBlank(SubSeq(xs, h + 1, Len(xs)))

DigitChars == <<"0", "1", "2", "3", "4", "5", "6", "7", "8", "9">>

IsDigit(c) == \E i \in 1..10 : DigitChars[i] = c

DigitVal(c) == (CHOOSE i \in 1..10 : DigitChars[i] = c) - 1

\* Value of the longest prefix of digits of s, given the value acc read so far.
RECURSIVE DigitsValue(_, _)
DigitsValue(s, acc) ==
  IF s = <<>> \/ ~IsDigit(Head(s)) THEN acc
  ELSE DigitsValue(Tail(s), 10 * acc + DigitVal(Head(s)))

\* parseFloat on an array element: undefined (missing column) and text with
\* no leading numeral give NaN; leading whitespace and a sign are accepted and
\* whatever follows the numeral is ignored.
ParseFloat(x) ==
  IF x.t # "str" THEN NaN
  ELSE LET s == TrimStart(x.v)
           signed == s # <<>> /\ Head(s) \in {"-", "+"}
           body == IF signed THEN Tail(s) ELSE s
       IN IF body = <<>> \/ ~IsDigit(Head(body)) THEN NaN
          ELSE IF signed /\ Head(s) = "-" THEN Num(0 - DigitsValue(body, 0))
               ELSE Num(DigitsValue(body, 0))

\* parseFloat(v) || 0
NumOrZero(x) == IF x.t = "nan" \/ x.v = 0 THEN 0 ELSE x.v

\* Variant: the columns are counted from 1.
AtOneBased(values, k) ==
  IF 1 <= k /\ k <= Len(values) THEN Str(values[k]) ELSE Undefined

\* values[k] of a JS array (0-based k): undefined past the end.
At(values, k) == IF k + 1 <= Len(values) THEN Str(values[k + 1]) ELSE Undefined

\* ------------------------------------------------------------------ files
\* Decimal numeral of a natural number.
RECURSIVE IntToChars(_)
IntToChars(n) ==
  IF n < 10 THEN <<DigitChars[n + 1]>>
  ELSE IntToChars(n \div 10) \o <<DigitChars[(n % 10) + 1]>>

RECURSIVE Join(_, _)
Join(cells, sep) ==
  IF Len(cells) = 0 THEN <<>>
  ELSE IF Len(cells) = 1 THEN cells[1]
       ELSE cells[1] \o <<sep>> \o Join(Tail(cells), sep)

HeaderLine ==
  Join(<< <<"t", "i", "m", "e", "s", "t", "a", "m", "p">>, <<"o", "p", "e", "n">>,
          <<"h", "i", "g", "h">>, <<"l", "o", "w">>, <<"c", "l", "o", "s", "e">>,
          <<"v", "o", "l", "u", "m", "e">> >>, ",")

RowLine(ts, o, h, l, c, v) ==
  Join(<<ts, IntToChars(o), IntToChars(h), IntToChars(l), IntToChars(c),
         IntToChars(v)>>, ",")

\* Row i of a generated file; row 1 carries both extremes of the whole file.
GenLow(i) == IF i = 1 THEN 1 ELSE 20 + ((i * 7) % 13)

GenHigh(i) == IF i = 1 THEN 99 ELSE GenLow(i) + 5 + (i % 4)

GenStamp(i) == <<"t">> \o IntToChars(i)

GenLine(i) ==
  RowLine(GenStamp(i), GenLow(i) + 1, GenHigh(i), GenLow(i), GenLow(i) + 2, 100 + i)

BlankLine == <<" ", "\r">>

\* Generated rows 1..n, with a whitespace-only line after every gap-th row
\* (gap = 0: none).
GenLines(n, gap) ==
  IF gap = 0 THEN [p \in 1..n |-> GenLine(p)]
  ELSE [p \in 1..(n + (n \div gap)) |->
          IF (p - 1) % (gap + 1) = gap THEN BlankLine
          ELSE GenLine(((p - 1) \div (gap + 1)) * gap + ((p - 1) % (gap + 1)) + 1)]

File(name, rows) == [name |-> name, rows |-> rows]

\* The three data rows of the worked example, and a file of malformed rows.
ScenarioLines ==
  << RowLine(<<"t", "1">>, 10, 12, 9, 11, 100),
     RowLine(<<"t", "2">>, 11, 13, 10, 12, 110),
     RowLine(<<"t", "3">>, 12, 14, 11, 13, 120) >>

RaggedLines ==
  << <<"t", "1", ",", "7", ",", "x", ",", "-", "3", ",", " ", "5", "k">>,
     BlankLine,
     <<",", "4", ",", "8", ",", "2", ",", "6", ",", "0", ",", "9">>,
     <<"t", "3">>,
     <<"t", "4", ",", ",", "1", "5", ",", "+", "6", ",", "-", ",", "1", "2", "\r">> >>

\* text.split('\n') of the file's content.
FileLines(f) ==
  CASE f.name = "empty" -> << <<>> >>
    [] f.name = "blank" -> << BlankLine, <<>> >>
    [] f.name = "header" -> << HeaderLine, <<>> >>
    [] f.name = "scenario" -> <<HeaderLine>> \o ScenarioLines
    [] f.name = "ragged" -> << <<>>, HeaderLine >> \o RaggedLines \o << <<>> >>
    [] f.name = "gen" -> <<HeaderLine>> \o GenLines(f.rows, 0) \o << <<>> >>
    [] f.name = "gappy" -> <<HeaderLine, BlankLine>> \o GenLines(f.rows, 7)

\* ------------------------------------------------------ CSV -> OHLC records
\* Array.prototype.slice(-n)
SliceLast(xs, n) ==
  IF Len(xs) <= n THEN xs ELSE SubSeq(xs, Len(xs) - n + 1, Len(xs))

\* Array.prototype.slice(a, b) with 0 <= a <= b.
Slice(xs, a, b) ==
  LET hi == IF b < Len(xs) THEN b ELSE Len(xs)
  IN IF a >= hi THEN <<>> ELSE SubSeq(xs, a + 1, hi)

\* Variant: keeps the first minLines rows instead of the last.
LinesToProcessFirst(dataLines) ==
  IF Len(dataLines) >= minLines THEN Slice(dataLines, 0, minLines) ELSE dataLines

LinesToProcess(dataLines) ==
  IF Len(dataLines) >= minLines THEN SliceLast(dataLines, minLines) ELSE dataLines

\* One record of ohlcData; now is the wall-clock stamp used for an empty
\* first column.
OhlcOf(line, now) ==
  LET values == Split(line, ",")
  IN [t      |-> OrElse(At(values, 0), Str(now)).v,
      open   |-> NumOrZero(ParseFloat(At(values, 1))),
      high   |-> NumOrZero(ParseFloat(At(values, 2))),
      low    |-> NumOrZero(ParseFloat(At(values, 3))),
      close  |-> NumOrZero(ParseFloat(At(values, 4))),
      volume |-> NumOrZero(ParseFloat(At(values, 5)))]

\* ohlcData for the non-empty lines of a file that has at least one of them.
OhlcData(lines, now) ==
  LET selected == LinesToProcess(Tail(lines))
  IN [k \in 1..Len(selected) |-> OhlcOf(selected[k], now)]

\* Math.min(...xs) and Math.max(...xs), evaluated by halves; no arguments give
\* +-Infinity.
RECURSIVE MathMin(_)
MathMin(xs) ==
  IF xs = <<>> THEN PosInfinity
  ELSE IF Len(xs) = 1 THEN Num(xs[1])
       ELSE LET h == Len(xs) \div 2
                a == MathMin(SubSeq(xs, 1, h))
                b == MathMin(SubSeq(xs, h + 1, Len(xs)))
            IN IF b.v < a.v THEN b ELSE a

RECURSIVE MathMax(_)
MathMax(xs) ==
  IF xs = <<>> THEN NegInfinity
  ELSE IF Len(xs) = 1 THEN Num(xs[1])
       ELSE LET h == Len(xs) \div 2
                a == MathMax(SubSeq(xs, 1, h))
                b == MathMax(SubSeq(xs, h + 1, Len(xs)))
            IN IF b.v > a.v THEN b ELSE a

\* Variant: scans the open values for the lower bound.
LowsOfOpen(ohlcData) == [k \in 1..Len(ohlcData) |-> ohlcData[k].open]

Lows(ohlcData) == [k \in 1..Len(ohlcData) |-> ohlcData[k].low]

Highs(ohlcData) == [k \in 1..Len(ohlcData) |-> ohlcData[k].high]

\* ohlcData[k]?.t for a 0-based k
StampAt(ohlcData, k) ==
  IF 0 <= k /\ k + 1 <= Len(ohlcData) THEN Str(ohlcData[k + 1].t) ELSE Undefined

\* The text of the summary message, as the values its template interpolates.
SummaryText(ohlcData) ==
  [t     |-> "summary",
   count |-> Len(ohlcData),
   from  |-> StampAt(ohlcData, 0),
   to    |-> StampAt(ohlcData, Len(ohlcData) - 1),
   lo    |-> MathMin(Lows(ohlcData)),
   hi    |-> MathMax(Highs(ohlcData))]

\* The preview built by handleCsvFileChange from the non-empty lines.
PreviewOf(lines) ==
  [headers    |-> Split(lines[1], ","),
   preview    |-> Slice(lines, 1, 6),
   totalLines |-> Len(lines) - 1]

\* ---------------------------------------------------------- session state
VARIABLES messages, input, csvFile, loading, backendStatus, csvPreview,
          tasks, lastEvent

\* messages .. csvPreview are the six useState cells of Chat.  tasks holds the
\* suspended async handlers (each waiting at an await, with what its closure
\* captured and the request it has outstanding); lastEvent names the handler
\* step taken last and the outcome it was given.
session == <<messages, input, csvFile, loading, backendStatus, csvPreview>>

vars == <<messages, input, csvFile, loading, backendStatus, csvPreview, tasks, lastEvent>>

Event(op, arg) == [op |-> op, arg |-> arg]

Message(sender, text) == [sender |-> sender, text |-> text]

\* Variant: puts the new message in front (newest first).
AppendMessageFront(prev, m) == <<m>> \o prev

\* setMessages(prev => [...prev, m])
AppendMessage(prev, m) == Append(prev, m)

RECURSIVE AppendAll(_, _)
AppendAll(prev, ms) ==
  IF ms = <<>> THEN prev ELSE AppendAll(AppendMessage(prev, Head(ms)), Tail(ms))

RemoveAt(xs, i) == SubSeq(xs, 1, i - 1) \o SubSeq(xs, i + 1, Len(xs))

\* ------------------------------------------------------ environment inputs
InputTexts == { <<>>, <<" ">>, <<"h", "i">> }

SessionFiles == { File("empty", 0), File("scenario", 0) }

Clock == { <<"n", "o", "w">> }

Obj(response, analysis) == [t |-> "obj", response |-> response, analysis |-> analysis]

Rejected == [kind |-> "reject"]

BadJson == [kind |-> "badjson"]

Json(body) == [kind |-> "json", body |-> body]

ChatOutcomes ==
  { Rejected, BadJson, Json(Null), Json(Obj(Undefined, Undefined)),
    Json(Obj(Str(<<"r">>), Undefined)) }

AnalyzeOutcomes ==
  { Rejected, BadJson, Json(Null), Json(Obj(Undefined, Undefined)),
    Json(Obj(Undefined, Str(<<>>))), Json(Obj(Undefined, Str(<<"a">>))) }

HealthOutcomes ==
  { Rejected } \cup
  { [kind |-> "response", ok |-> o, json |-> j] : o \in BOOLEAN, j \in BOOLEAN }

\* ------------------------------------------------------------------- tasks
HealthTask == [kind |-> "health"]

PreviewTask(file) == [kind |-> "preview", file |-> file]

SendTask(prompt) == [kind |-> "send", prompt |-> prompt]

AnalyzeReadTask(file, text) == [kind |-> "analyzeRead", file |-> file, input |-> text]

AnalyzeFetchTask(file, question, ohlc) ==
  [kind |-> "analyzeFetch", file |-> file, question |-> question, ohlc |-> ohlc]

\* Messages a suspended handler may still append.
Reserved(task) ==
  CASE task.kind = "send" -> 1
    [] task.kind \in {"analyzeRead", "analyzeFetch"} -> 2
    [] OTHER -> 0

RECURSIVE ReservedAll(_)
ReservedAll(ts) == IF ts = <<>> THEN 0 ELSE Reserved(Head(ts)) + ReservedAll(Tail(ts))

\* Bounds of the model: a handler starts only if it and every suspended
\* handler can run to completion within them.
CanSuspend == Len(tasks) < MaxTasks

CanAppend == Len(messages) + ReservedAll(tasks) + 2 <= MaxMessages

\* ------------------------------------------------------------------- Init
\* The state after the first render and the mount effect, which has called
\* checkBackendHealth.
Init ==
  /\ messages = <<>>
  /\ input = <<>>
  /\ csvFile = Null
  /\ loading = FALSE
  /\ backendStatus = "checking"
  /\ csvPreview = Null
  /\ tasks = <<HealthTask>>
  /\ lastEvent = Event("mount", Null)

\* ------------------------------------------------------ Connection Monitor
\* Refresh button: checkBackendHealth up to its fetch.
CheckBackendHealth ==
  /\ CanSuspend
  /\ tasks' = Append(tasks, HealthTask)
  /\ lastEvent' = Event("checkBackendHealth", Null)
  /\ UNCHANGED session

\* The status checkBackendHealth sets for an outcome of its request.
HealthStatus(out) ==
  IF out.kind = "reject" THEN "disconnected"
  ELSE IF out.ok THEN (IF out.json THEN "connected" ELSE "disconnected")
       ELSE "error"

HealthSettled ==
  \E i \in 1..Len(tasks) : \E out \in HealthOutcomes :
    /\ tasks[i].kind = "health"
    /\ backendStatus' = HealthStatus(out)
    /\ tasks' = RemoveAt(tasks, i)
    /\ lastEvent' = Event("healthSettled", out)
    /\ UNCHANGED <<messages, input, csvFile, loading, csvPreview>>

\* ------------------------------------------------------------- text input
SetInput ==
  \E text \in InputTexts :
    /\ input' = text
    /\ lastEvent' = Event("setInput", Null)
    /\ UNCHANGED <<messages, csvFile, loading, backendStatus, csvPreview, tasks>>

\* ------------------------------------------------------------ sendMessage
\* Variant: tests the input without trimming it.
IsBlankNoTrim(text) == text = <<>>

\* !input.trim()
IsBlank(text) == Trim(text) = <<>>

\* Variant: the user message is not appended when the request is issued.
sendMessageNoEcho ==
  /\ lastEvent' = Event("sendMessage", Null)
  /\ IF IsBlank(input)
     THEN UNCHANGED <<session, tasks>>
     ELSE /\ CanSuspend
          /\ CanAppend
          /\ loading' = TRUE
          /\ tasks' = Append(tasks, SendTask(input))
          /\ UNCHANGED <<messages, input, csvFile, backendStatus, csvPreview>>

\* sendMessage up to its fetch.
sendMessage ==
  /\ lastEvent' = Event("sendMessage", Null)
  /\ IF IsBlank(input)
     THEN UNCHANGED <<session, tasks>>
     ELSE /\ CanSuspend
          /\ CanAppend
          /\ loading' = TRUE
          /\ messages' = AppendMessage(messages, Message("user", Str(input)))
          /\ tasks' = Append(tasks, SendTask(input))
          /\ UNCHANGED <<input, csvFile, backendStatus, csvPreview>>

\* disabled={loading || !input.trim()}
SendDisabled == loading \/ Trim(input) = <<>>

ClickSend == ~SendDisabled /\ sendMessage

Keys == {"Enter", "a"}

\* onKeyDown={e => e.key === 'Enter' && sendMessage()}
OnKeyDown ==
  \E key \in Keys :
    IF key = "Enter" THEN sendMessage ELSE UNCHANGED vars

\* Variant: the catch reports the error as an assistant message.
ChatReplyAsAssistant(out) ==
  IF out.kind = "json" /\ out.body.t # "null"
  THEN Message("assistant", OrElse(out.body.response, out.body.analysis))
  ELSE Message("assistant", Str(ChatErrorText))

\* Variant: the reply text is data.response, with no fallback.
ChatReplyResponseOnly(out) ==
  IF out.kind = "json" /\ out.body.t # "null"
  THEN Message("assistant", out.body.response)
  ELSE Message("system", Str(ChatErrorText))

\* The message the rest of sendMessage appends for an outcome of its request.
ChatReply(out) ==
  IF out.kind = "json" /\ out.body.t # "null"
  THEN Message("assistant", OrElse(out.body.response, out.body.analysis))
  ELSE Message("system", Str(ChatErrorText))

\* Variant: the input and the flag are reset inside the try, after the reply,
\* so the catch skips them.
ChatSettleResetInTry(i, out) ==
  /\ tasks[i].kind = "send"
  /\ messages' = AppendMessage(messages, ChatReply(out))
  /\ IF ChatReply(out).sender = "assistant"
     THEN input' = <<>> /\ loading' = FALSE
     ELSE UNCHANGED <<input, loading>>
  /\ tasks' = RemoveAt(tasks, i)
  /\ lastEvent' = Event("chatSettled", out)
  /\ UNCHANGED <<csvFile, backendStatus, csvPreview>>

\* The rest of sendMessage, run when the request of suspended handler i
\* settles with outcome out.
ChatSettle(i, out) ==
  /\ tasks[i].kind = "send"
  /\ messages' = AppendMessage(messages, ChatReply(out))
  /\ input' = <<>>
  /\ loading' = FALSE
  /\ tasks' = RemoveAt(tasks, i)
  /\ lastEvent' = Event("chatSettled", out)
  /\ UNCHANGED <<csvFile, backendStatus, csvPreview>>

ChatSettled ==
  \E i \in 1..Len(tasks) : \E out \in ChatOutcomes : ChatSettle(i, out)

\* ------------------------------------------------------ CSV Preview Builder
\* handleCsvFileChange up to its file read; selecting nothing passes no file.
HandleCsvFileChange ==
  \E file \in SessionFiles \cup {Null} :
    /\ lastEvent' = Event("handleCsvFileChange", [file |-> file])
    /\ csvFile' = file
    /\ IF file # Null
       THEN /\ CanSuspend
            /\ tasks' = Append(tasks, PreviewTask(file))
            /\ UNCHANGED csvPreview
       ELSE /\ csvPreview' = Null
            /\ UNCHANGED tasks
    /\ UNCHANGED <<messages, input, loading, backendStatus>>

\* What the rest of handleCsvFileChange stores: the read rejecting, or a text
\* with no non-empty line (lines[0] is undefined), ends in the catch.
PreviewResult(file, readOk) ==
  LET lines == NonBlank(FileLines(file))
  IN IF readOk /\ lines # <<>> THEN PreviewOf(lines) ELSE Null

PreviewRead ==
  \E i \in 1..Len(tasks) : \E readOk \in BOOLEAN :
    /\ tasks[i].kind = "preview"
    /\ csvPreview' = PreviewResult(tasks[i].file, readOk)
    /\ tasks' = RemoveAt(tasks, i)
    /\ lastEvent' = Event("previewRead", [readOk |-> readOk])
    /\ UNCHANGED <<messages, input, csvFile, loading, backendStatus>>

\* --------------------------------------------------------------- uploadCSV
\* Variant: the handler has no guard.
NoFileNever(file) == FALSE

\* !csvFile
NoFile(file) == file = Null

\* disabled={!csvFile || loading}
AnalyzeDisabled == csvFile = Null \/ loading

\* uploadCSV up to its file read.  The Analyze button reaches it only while
\* enabled; with no file selected the handler is also taken directly, which is
\* the case its own guard is there for.
UploadCSV ==
  /\ csvFile = Null \/ ~AnalyzeDisabled
  /\ lastEvent' = Event("uploadCSV", Null)
  /\ IF NoFile(csvFile)
     THEN UNCHANGED <<session, tasks>>
     ELSE /\ CanSuspend
          /\ CanAppend
          /\ loading' = TRUE
          /\ tasks' = Append(tasks, AnalyzeReadTask(csvFile, input))
          /\ UNCHANGED <<messages, input, csvFile, backendStatus, csvPreview>>

\* Variant: the preview is left in place when the action ends.
AnalyzeFinishKeepsPreview(appended) ==
  /\ messages' = AppendAll(messages, appended)
  /\ csvFile' = Null
  /\ loading' = FALSE
  /\ UNCHANGED <<input, backendStatus, csvPreview>>

\* Variant: the input is cleared when the action ends, as sendMessage does.
AnalyzeFinishClearsInput(appended) ==
  /\ messages' = AppendAll(messages, appended)
  /\ input' = <<>>
  /\ csvFile' = Null
  /\ csvPreview' = Null
  /\ loading' = FALSE
  /\ UNCHANGED backendStatus

\* The statements after the try/catch of uploadCSV, with the messages the
\* try/catch appended.
AnalyzeFinish(appended) ==
  /\ messages' = AppendAll(messages, appended)
  /\ csvFile' = Null
  /\ csvPreview' = Null
  /\ loading' = FALSE
  /\ UNCHANGED <<input, backendStatus>>

CsvError == Message("system", Str(CsvErrorText))

\* uploadCSV from the file read to its fetch: a failed read (no file object,
\* a rejected read, no non-empty line) goes to the catch and finishes.
AnalyzeRead ==
  \E i \in 1..Len(tasks) : \E readOk \in BOOLEAN : \E now \in Clock :
    /\ tasks[i].kind = "analyzeRead"
    /\ lastEvent' = Event("analyzeRead", [readOk |-> readOk])
    /\ LET task == tasks[i]
           lines == IF task.file = Null THEN <<>> ELSE NonBlank(FileLines(task.file))
       IN IF ~readOk \/ lines = <<>>
          THEN /\ AnalyzeFinish(<<CsvError>>)
               /\ tasks' = RemoveAt(tasks, i)
          ELSE /\ tasks' = [tasks EXCEPT ![i] =
                              AnalyzeFetchTask(task.file,
                                               OrElse(Str(task.input), Str(DefaultQuestion)).v,
                                               OhlcData(lines, now))]
               /\ UNCHANGED session

\* Variant: the summary is appended before the request is awaited.
AnalyzeAppendsSummaryFirst(ohlcData, out) ==
  LET summary == Message("system", SummaryText(ohlcData))
  IN IF out.kind # "json" \/ out.body.t = "null" THEN <<summary, CsvError>>
     ELSE IF Truthy(out.body.analysis)
          THEN <<summary, Message("assistant", out.body.analysis)>>
          ELSE <<summary>>

\* Variant: the assistant message is appended without testing data.analysis.
AnalyzeAppendsAlwaysReply(ohlcData, out) ==
  IF out.kind # "json" THEN <<CsvError>>
  ELSE LET summary == Message("system", SummaryText(ohlcData))
       IN IF out.body.t = "null" THEN <<summary, CsvError>>
          ELSE <<summary, Message("assistant", out.body.analysis)>>

\* The messages the try/catch of uploadCSV appends once its request settled:
\* the summary is built after the body was parsed, and reading data.analysis
\* of a null body throws after the summary was appended.
AnalyzeAppends(ohlcData, out) ==
  IF out.kind # "json" THEN <<CsvError>>
  ELSE LET summary == Message("system", SummaryText(ohlcData))
       IN IF out.body.t = "null" THEN <<summary, CsvError>>
          ELSE IF Truthy(out.body.analysis)
               THEN <<summary, Message("assistant", out.body.analysis)>>
               ELSE <<summary>>

AnalyzeSettled ==
  \E i \in 1..Len(tasks) : \E out \in AnalyzeOutcomes :
    /\ tasks[i].kind = "analyzeFetch"
    /\ AnalyzeFinish(AnalyzeAppends(tasks[i].ohlc, out))
    /\ tasks' = RemoveAt(tasks, i)
    /\ lastEvent' = Event("analyzeSettled", out)

\* ---------------------------------------------------------- specification
Next ==
  \/ CheckBackendHealth
  \/ HealthSettled
  \/ SetInput
  \/ ClickSend
  \/ OnKeyDown
  \/ ChatSettled
  \/ HandleCsvFileChange
  \/ PreviewRead
  \/ UploadCSV
  \/ AnalyzeRead
  \/ AnalyzeSettled

Spec == Init /\ [][Next]_vars

\* ------------------------------------------- conversion of bounded inputs
\* Files of 0..MaxRows generated rows, with and without whitespace-only lines
\* between the rows, and the small hand-written ones.
ConvFiles ==
  { File("empty", 0), File("blank", 0), File("header", 0), File("scenario", 0),
    File("ragged", 0) }
  \cup { File("gen", n) : n \in 0..MaxRows }
  \cup { File("gappy", n) : n \in 1..MaxRows }

\* A session whose health check answered and in which one file was selected
\* and previewed.
InitConv ==
  \E f \in ConvFiles :
    /\ messages = <<>>
    /\ input = <<>>
    /\ csvFile = f
    /\ loading = FALSE
    /\ backendStatus = "connected"
    /\ csvPreview = PreviewResult(f, TRUE)
    /\ tasks = <<>>
    /\ lastEvent = Event("previewRead", [readOk |-> TRUE])

NextConv ==
  \/ UploadCSV
  \/ AnalyzeRead
  \/ AnalyzeSettled

SpecConv == InitConv /\ [][NextConv]_vars

\* -------------------------------------------- chat replies of bounded bodies
\* Response bodies with each combination of an absent, empty and non-empty
\* response and analysis field, next to the failures and the null body.
ChatFields == { Undefined, Str(<<>>), Str(<<"r">>) }

WideChatOutcomes ==
  { Rejected, BadJson, Json(Null) } \cup
  { Json(Obj(r, IF a.v = <<>> THEN a ELSE Str(<<"a">>))) : r \in ChatFields, a \in ChatFields }

ChatSettledWide ==
  \E i \in 1..Len(tasks) : \E out \in WideChatOutcomes : ChatSettle(i, out)

\* A session whose health check answered, with some text typed.
InitChat ==
  /\ messages = <<>>
  /\ input \in InputTexts
  /\ csvFile = Null
  /\ loading = FALSE
  /\ backendStatus = "connected"
  /\ csvPreview = Null
  /\ tasks = <<>>
  /\ lastEvent = Event("setInput", Null)

NextChat ==
  \/ SetInput
  \/ ClickSend
  \/ OnKeyDown
  \/ ChatSettledWide

SpecChat == InitChat /\ [][NextChat]_vars

\* ================================================================= claims
IsPrefix(xs, ys) == Len(xs) <= Len(ys) /\ SubSeq(ys, 1, Len(xs)) = xs

ActionKinds == {"send", "analyzeRead", "analyzeFetch"}

\* Number of sendMessage / uploadCSV invocations that have started and not
\* yet run their final setLoading(false).
InFlight == Cardinality({i \in 1..Len(tasks) : tasks[i].kind \in ActionKinds})

AllWhitespace(text) == \A i \in 1..Len(text) : IsWhitespace(text[i])

RequestFailed(out) == out.kind \in {"reject", "badjson"}

ChatErrorMessage == [sender |-> "system", text |-> [t |-> "str", v |-> ChatErrorText]]

CsvErrorMessage == [sender |-> "system", text |-> [t |-> "str", v |-> CsvErrorText]]

IsSummary(m) == m.sender = "system" /\ m.text.t = "summary"

\* C1: in every reachable state, loading is true if and only if exactly one
\* action (sendMessage or uploadCSV) is in flight.
C1_LoadingIffOneInFlight == loading <=> (InFlight = 1)

\* C2 as stated: a failing analyze request (fetch rejects or the body is not
\* JSON) appends exactly two messages, the summary and then the error.
C2_FailedAnalyzeAppendsSummaryAndError ==
  [][ (lastEvent'.op = "analyzeSettled" /\ RequestFailed(lastEvent'.arg))
      => /\ Len(messages') = Len(messages) + 2
         /\ IsPrefix(messages, messages')
         /\ IsSummary(messages'[Len(messages) + 1])
         /\ messages'[Len(messages) + 2] = CsvErrorMessage ]_vars

\* C2 amended: a failing analyze request (fetch rejects or the body is not
\* JSON) appends exactly one message, the system error message; neither the
\* summary nor an assistant message is appended.
C2_FailedAnalyzeAppendsOnlyError ==
  [][ (lastEvent'.op = "analyzeSettled" /\ RequestFailed(lastEvent'.arg))
      => messages' = Append(messages, CsvErrorMessage) ]_vars

C2_Witness ==
  /\ lastEvent.op = "analyzeSettled"
  /\ RequestFailed(lastEvent.arg)
  /\ messages # <<>>
  /\ messages[Len(messages)] = CsvErrorMessage
  /\ csvFile = Null

\* C3 as stated: a succeeding analyze request (the body parses as JSON)
\* appends exactly two messages, the summary and then one assistant message
\* carrying the analysis, for every response body.
C3_ParsedAnalyzeAppendsSummaryAndReply ==
  [][ (lastEvent'.op = "analyzeSettled" /\ lastEvent'.arg.kind = "json")
      => /\ Len(messages') = Len(messages) + 2
         /\ IsPrefix(messages, messages')
         /\ IsSummary(messages'[Len(messages) + 1])
         /\ messages'[Len(messages) + 2].sender = "assistant"
         /\ lastEvent'.arg.body.t = "obj"
         /\ messages'[Len(messages) + 2].text = lastEvent'.arg.body.analysis ]_vars

\* C3 amended: a succeeding analyze request whose parsed body has a non-empty
\* analysis field appends exactly two messages, the summary (system) and then
\* one assistant message carrying the analysis; a parsed body with no or an
\* empty analysis field appends the summary alone, and a null body the summary
\* followed by the system error message.
C3_ParsedAnalyzeAppends ==
  [][ (lastEvent'.op = "analyzeSettled" /\ lastEvent'.arg.kind = "json")
      => LET body == lastEvent'.arg.body
             n == Len(messages)
         IN /\ IsPrefix(messages, messages')
            /\ Len(messages') > n
            /\ IsSummary(messages'[n + 1])
            /\ IF body.t = "null"
               THEN Len(messages') = n + 2 /\ messages'[n + 2] = CsvErrorMessage
               ELSE IF body.analysis.t = "str" /\ body.analysis.v # <<>>
                    THEN /\ Len(messages') = n + 2
                         /\ messages'[n + 2] = [sender |-> "assistant", text |-> body.analysis]
                    ELSE Len(messages') = n + 1 ]_vars

C3_Witness ==
  /\ lastEvent.op = "analyzeSettled"
  /\ lastEvent.arg.kind = "json"
  /\ lastEvent.arg.body.t = "obj"
  /\ lastEvent.arg.body.analysis = Str(<<"a">>)
  /\ Len(messages) >= 2
  /\ IsSummary(messages[Len(messages) - 1])
  /\ messages[Len(messages)] = [sender |-> "assistant", text |-> Str(<<"a">>)]

\* C4: a failing chat request makes the response handling of sendMessage
\* append exactly one message, the system message with the fixed error text,
\* and the only other message a sendMessage appends is the user message with
\* the input text, at its start.
C4_FailedChatAppendsOneError ==
  [][ /\ (lastEvent'.op = "chatSettled" /\ RequestFailed(lastEvent'.arg))
         => messages' = Append(messages, ChatErrorMessage)
      /\ lastEvent'.op = "sendMessage"
         => \/ messages' = messages
            \/ messages' = Append(messages, [sender |-> "user", text |-> Str(input)]) ]_vars

C4_Witness ==
  /\ lastEvent.op = "chatSettled"
  /\ RequestFailed(lastEvent.arg)
  /\ Len(messages) >= 2
  /\ messages[Len(messages) - 1].sender = "user"
  /\ messages[Len(messages)] = ChatErrorMessage

\* C5: sendMessage invoked with empty or whitespace-only input leaves the whole
\* session state unchanged and suspends no handler (issues no request).
C5_BlankSendIsNoOp ==
  [][ (lastEvent'.op = "sendMessage" /\ AllWhitespace(input))
      => UNCHANGED <<session, tasks>> ]_vars

C5_Witness ==
  /\ lastEvent.op = "sendMessage"
  /\ input = <<" ">>
  /\ messages = <<>>
  /\ ~loading

\* C6: uploadCSV invoked with no file selected leaves the whole session state,
\* loading included, unchanged and suspends no handler (issues no request).
C6_AnalyzeWithoutFileIsNoOp ==
  [][ (lastEvent'.op = "uploadCSV" /\ csvFile = Null)
      => UNCHANGED <<session, tasks>> ]_vars

C6_Witness ==
  /\ lastEvent.op = "uploadCSV"
  /\ csvFile = Null
  /\ loading
  /\ \A i \in 1..Len(tasks) : tasks[i].kind = "send"

\* The record row i of a generated file stands for.
GenRecord(i) ==
  [t |-> GenStamp(i), open |-> GenLow(i) + 1, high |-> GenHigh(i),
   low |-> GenLow(i), close |-> GenLow(i) + 2, volume |-> 100 + i]

ScenarioRecords ==
  << [t |-> <<"t", "1">>, open |-> 10, high |-> 12, low |-> 9, close |-> 11, volume |-> 100],
     [t |-> <<"t", "2">>, open |-> 11, high |-> 13, low |-> 10, close |-> 12, volume |-> 110],
     [t |-> <<"t", "3">>, open |-> 12, high |-> 14, low |-> 11, close |-> 13, volume |-> 120] >>

\* C7: for a CSV with N >= 1 data rows (the non-empty lines after the header)
\* the records sent are min(N, 50) in number and are the last min(N, 50) rows
\* of the file in file order.
C7_LastFiftyInOrder ==
  \A i \in 1..Len(tasks) :
    tasks[i].kind = "analyzeFetch" =>
      LET f == tasks[i].file
          recs == tasks[i].ohlc
      IN /\ (f.name \in {"gen", "gappy"} /\ f.rows >= 1) =>
              LET n == IF f.rows > 50 THEN 50 ELSE f.rows
              IN /\ Len(recs) = n
                 /\ \A k \in 1..n : recs[k] = GenRecord(f.rows - n + k)
         /\ f.name = "scenario" => recs = ScenarioRecords

C7_Witness ==
  \E i \in 1..Len(tasks) :
    /\ tasks[i].kind = "analyzeFetch"
    /\ tasks[i].file.name = "gappy"
    /\ tasks[i].file.rows > 50
    /\ Len(tasks[i].ohlc) = 50
    /\ tasks[i].ohlc[1].t = <<"t">> \o IntToChars(tasks[i].file.rows - 49)

SetMin(S) == CHOOSE x \in S : \A y \in S : x <= y

SetMax(S) == CHOOSE x \in S : \A y \in S : x >= y

\* C8: the summary message reports the number of records sent to the backend,
\* the first and the last of their timestamps, the minimum of their low values
\* as the lower bound of the price range and the maximum of their high values
\* as the upper bound; for the worked example the range is 9 - 14.
C8_SummaryOverSentRecords ==
  [][ (lastEvent'.op = "analyzeSettled" /\ lastEvent'.arg.kind = "json")
      => \E i \in 1..Len(tasks) :
           /\ tasks[i].kind = "analyzeFetch"
           /\ tasks' = RemoveAt(tasks, i)
           /\ Len(messages') > Len(messages)
           /\ LET recs == tasks[i].ohlc
                  m == messages'[Len(messages) + 1]
              IN /\ IsSummary(m)
                 /\ m.text.count = Len(recs)
                 /\ recs # <<>> =>
                      /\ m.text.from = [t |-> "str", v |-> recs[1].t]
                      /\ m.text.to = [t |-> "str", v |-> recs[Len(recs)].t]
                      /\ m.text.lo = [t |-> "num", v |-> SetMin({recs[k].low : k \in 1..Len(recs)})]
                      /\ m.text.hi = [t |-> "num", v |-> SetMax({recs[k].high : k \in 1..Len(recs)})]
                 /\ tasks[i].file.name = "scenario" =>
                      (m.text.lo.v = 9 /\ m.text.hi.v = 14 /\ m.text.count = 3) ]_vars

C8_Witness ==
  /\ lastEvent.op = "analyzeSettled"
  /\ lastEvent.arg.kind = "json"
  /\ messages # <<>>
  /\ IsSummary(messages[1])
  /\ messages[1].text.count = 50
  /\ messages[1].text.lo.v > 1
  /\ messages[1].text.hi.v < 99

\* C9: a completed health check sets the status from the outcome class alone:
\* connected for any 2xx response whatever its body, disconnected for a
\* network failure, error for any non-2xx response.
C9_StatusFromOutcomeClass ==
  [][ lastEvent'.op = "healthSettled"
      => backendStatus' = (IF lastEvent'.arg.kind = "reject" THEN "disconnected"
                           ELSE IF lastEvent'.arg.ok THEN "connected" ELSE "error") ]_vars

\* C10: in every step the previous message list is a prefix of the new one.
C10_AppendOnly == [][IsPrefix(messages, messages')]_vars

C10_Witness ==
  /\ Len(messages) = 4
  /\ messages[1].sender = "user"
  /\ messages[2].sender = "user"
  /\ messages[3].sender = "system"
  /\ messages[4].sender = "assistant"

KindCount(kinds) == Cardinality({i \in 1..Len(tasks) : tasks[i].kind \in kinds})

\* C11: at no time are two chat/analyze network requests outstanding at once.
C11_AtMostOneRequest == KindCount({"send", "analyzeFetch"}) <= 1

\* C12: whenever no handler of the CSV state is suspended (no file read and no
\* analyze action pending), csvFile = null implies csvPreview = null.
C12_NoFileNoPreview ==
  (KindCount({"preview", "analyzeRead", "analyzeFetch"}) = 0 /\ csvFile = Null)
    => csvPreview = Null

\* C13: when the chat request of a sendMessage settles, with whatever outcome,
\* the handler ends with the input text empty and loading false, and it is
\* no longer suspended.
C13_SettledSendResets ==
  [][ lastEvent'.op = "chatSettled"
      => /\ input' = <<>>
         /\ loading' = FALSE
         /\ KindCount({"send"})' = KindCount({"send"}) - 1 ]_vars

C13_Witness ==
  /\ lastEvent.op = "chatSettled"
  /\ lastEvent.arg.kind = "badjson"
  /\ input = <<>>
  /\ ~loading
  /\ tasks = <<>>
  /\ Len(messages) = 2

AnalyzeKinds == {"analyzeRead", "analyzeFetch"}

\* C14: an uploadCSV step taken after its file read or its request settled
\* either goes on from the read to the request, changing nothing of the
\* session, or ends the action with csvFile = null, csvPreview = null and
\* loading = false; a rejected file read, a file with no non-empty line and
\* every outcome of the request end it, the failures with the system error
\* message as the last message.
C14_SettledAnalyzeResets ==
  [][ (lastEvent'.op \in {"analyzeRead", "analyzeSettled"})
      => \/ /\ lastEvent'.op = "analyzeRead"
            /\ lastEvent'.arg.readOk
            /\ KindCount({"analyzeFetch"})' = KindCount({"analyzeFetch"}) + 1
            /\ KindCount({"analyzeRead"})' = KindCount({"analyzeRead"}) - 1
            /\ UNCHANGED session
         \/ /\ KindCount(AnalyzeKinds)' = KindCount(AnalyzeKinds) - 1
            /\ csvFile' = Null
            /\ csvPreview' = Null
            /\ loading' = FALSE
            /\ (lastEvent'.op = "analyzeRead" \/ RequestFailed(lastEvent'.arg))
                 => messages' = Append(messages, CsvErrorMessage) ]_vars

C14_Witness ==
  /\ lastEvent.op = "analyzeRead"
  /\ lastEvent.arg.readOk
  /\ tasks = <<>>
  /\ csvFile = Null
  /\ csvPreview = Null
  /\ ~loading
  /\ messages = <<CsvErrorMessage>>

\* C15 as stated: a chat request whose body parses as JSON appends exactly one
\* assistant message whatever the body: its text is the response field when
\* present, otherwise the analysis field (undefined when both are absent).
C15_ParsedChatAppendsAssistant ==
  [][ (lastEvent'.op = "chatSettled" /\ lastEvent'.arg.kind = "json")
      => LET body == lastEvent'.arg.body
         IN /\ body.t = "obj"
            /\ messages' = Append(messages,
                 [sender |-> "assistant",
                  text |-> IF body.response.t = "str" THEN body.response
                           ELSE body.analysis]) ]_vars

\* C15 amended: a chat request whose body parses as JSON other than null
\* appends exactly one assistant message and no system message: its text is
\* the response field when that is a non-empty string, otherwise the analysis
\* field, which is undefined when absent; a null body appends the system
\* error message instead.
C15_ParsedChatReply ==
  [][ (lastEvent'.op = "chatSettled" /\ lastEvent'.arg.kind = "json")
      => LET body == lastEvent'.arg.body
         IN IF body.t = "null"
            THEN messages' = Append(messages, ChatErrorMessage)
            ELSE messages' = Append(messages,
                   [sender |-> "assistant",
                    text |-> IF body.response.t = "str" /\ body.response.v # <<>>
                             THEN body.response ELSE body.analysis]) ]_vars

C15_Witness ==
  /\ lastEvent.op = "chatSettled"
  /\ lastEvent.arg.kind = "json"
  /\ lastEvent.arg.body.t = "obj"
  /\ lastEvent.arg.body.response = Undefined
  /\ lastEvent.arg.body.analysis = Str(<<"a">>)
  /\ Len(messages) = 2
  /\ messages[2] = [sender |-> "assistant", text |-> Str(<<"a">>)]

\* C16: while a health request is outstanding and unanswered the status is
\* checking, for the request of the mount and for those of Refresh.
C16_OutstandingMeansChecking ==
  KindCount({"health"}) > 0 => backendStatus = "checking"

\* The records the data rows of the malformed file stand for: a field is the
\* number its column starts with, and 0 for a missing, empty or non-numeric
\* column.
RaggedRecords ==
  << [t |-> <<"t", "1">>, open |-> 7, high |-> 0, low |-> 0 - 3, close |-> 5, volume |-> 0],
     [t |-> <<"n", "o", "w">>, open |-> 4, high |-> 8, low |-> 2, close |-> 6, volume |-> 0],
     [t |-> <<"t", "3">>, open |-> 0, high |-> 0, low |-> 0, close |-> 0, volume |-> 0],
     [t |-> <<"t", "4">>, open |-> 0, high |-> 15, low |-> 6, close |-> 0, volume |-> 12] >>

\* C17: every numeric field of a record is the number parsed from its column
\* (open, high, low, close from columns 1-4, volume from column 5) and 0 when
\* the column is missing or does not parse; malformed rows are all kept, the
\* conversion goes on to the request and appends no message.
C17_MalformedRowsCoerced ==
  [][ ( /\ lastEvent'.op = "analyzeRead"
        /\ lastEvent'.arg.readOk
        /\ \E i \in 1..Len(tasks) :
             tasks[i].kind = "analyzeRead" /\ tasks[i].file.name = "ragged" )
      => /\ messages' = messages
         /\ \E i \in 1..Len(tasks') :
              /\ tasks'[i].kind = "analyzeFetch"
              /\ tasks'[i].ohlc = RaggedRecords ]_vars

C17_Witness ==
  \E i \in 1..Len(tasks) :
    /\ tasks[i].kind = "analyzeFetch"
    /\ tasks[i].file.name = "ragged"
    /\ Len(tasks[i].ohlc) = 4
    /\ tasks[i].ohlc[3].volume = 0
    /\ messages = <<>>

\* C18: the steps of sendMessage leave csvFile, csvPreview and backendStatus
\* unchanged; those of uploadCSV leave the input text and backendStatus
\* unchanged; those of checkBackendHealth change nothing but backendStatus;
\* those of handleCsvFileChange change nothing but csvFile and csvPreview.
C18_Frames ==
  [][ /\ lastEvent'.op \in {"sendMessage", "chatSettled"}
         => UNCHANGED <<csvFile, csvPreview, backendStatus>>
      /\ lastEvent'.op \in {"uploadCSV", "analyzeRead", "analyzeSettled"}
         => UNCHANGED <<input, backendStatus>>
      /\ lastEvent'.op \in {"checkBackendHealth", "healthSettled"}
         => UNCHANGED <<messages, input, csvFile, loading, csvPreview>>
      /\ lastEvent'.op \in {"handleCsvFileChange", "previewRead"}
         => UNCHANGED <<messages, input, loading, backendStatus>> ]_vars

C18_Witness ==
  /\ lastEvent.op = "analyzeSettled"
  /\ input = <<"h", "i">>
  /\ backendStatus = "error"
  /\ messages # <<>>

IsUserMessage(m) == m.sender = "user"

\* The messages the response handling of sendMessage appends: the fixed error
\* message, or an assistant message with one of the chat reply texts.
IsChatReply(m) ==
  \/ m = ChatErrorMessage
  \/ m.sender = "assistant" /\ m.text \in {Undefined, Str(<<"r">>)}

Users(ms) == Cardinality({i \in 1..Len(ms) : IsUserMessage(ms[i])})

Replies(ms) == Cardinality({i \in 1..Len(ms) : IsChatReply(ms[i])})

\* C19: in every reachable state each prefix of the message list holds at
\* least as many user messages as chat replies, and the user messages are as
\* many as the chat replies plus the sendMessage handlers still suspended.
C19_RepliesFollowUserMessages ==
  /\ \A n \in 0..Len(messages) :
       Replies(SubSeq(messages, 1, n)) <= Users(SubSeq(messages, 1, n))
  /\ Users(messages) = Replies(messages) + KindCount({"send"})

C19_Witness ==
  /\ Len(messages) = 3
  /\ IsUserMessage(messages[1])
  /\ IsUserMessage(messages[2])
  /\ IsChatReply(messages[3])
  /\ KindCount({"send"}) = 1

\* C20: whenever csvPreview is non-null and no file read is pending, it is the
\* preview of the currently selected csvFile.
C20_PreviewOfSelectedFile ==
  (csvPreview # Null /\ KindCount({"preview"}) = 0)
    => /\ csvFile # Null
       /\ NonBlank(FileLines(csvFile)) # <<>>
       /\ csvPreview = PreviewOf(NonBlank(FileLines(csvFile)))

====
